---- MODULE Spec2Model ----
(***************************************************************************)
(* A model of src/app.py, the AI Customer Health Monitor dashboard.        *)
(*                                                                         *)
(* Three specifications share the variables below:                         *)
(*   Spec        the dashboard: record selection, the batch-size slider,   *)
(*               single-record analysis and the batch loop with its        *)
(*               aggregation (main, lines 70-260);                          *)
(*   SpecStrip   the code-fence stripping of a reply text (line 61);        *)
(*   SpecPrompt  the rendering of the prompt from a record (lines 21-51).   *)
(* Texts are sequences of Unicode code points wherever the code works on   *)
(* characters (stripping, prompt rendering), and TLA+ strings elsewhere.    *)
(***************************************************************************)
EXTENDS Naturals, Sequences, FiniteSets

VARIABLES
    df,              \* the dataset loaded from customers_data.csv (line 76)
    selected,        \* the selectbox's current name (lines 87-91)
    num_customers,   \* the slider's current value (lines 180-186)
    pc,              \* "idle", "batch" (inside the loop of line 194), "done", "crashed"
    mode,            \* which button's handler is running or ran: "none", "single", "batch"
    idx,             \* the batch loop's index (line 194)
    results,         \* the list of rows collected by the batch loop (line 192)
    calls,           \* the remote requests issued by the handler, in order, with their replies
    ai_result,       \* the value analyze_customer_with_ai returned last
    errors,          \* the number of st.error messages shown by the handler (line 67)
    exception,       \* the uncaught exception that ended the handler, if any
    display,         \* the widgets the single-record handler has rendered (lines 131-175)
    metrics,         \* the summary statistics, once computed (lines 219-233)
    response_text,   \* SpecStrip: the reply text given to the stripping
    inner,           \* SpecStrip: the content wrapped in fences, when the reply was built so
    stripped,        \* SpecStrip: the results of the stripping, applied once and twice
    customer_data,   \* SpecPrompt: the record being rendered
    prompt           \* SpecPrompt: the rendered prompt

vars == <<df, selected, num_customers, pc, mode, idx, results, calls, ai_result,
          errors, exception, display, metrics, response_text, inner, stripped,
          customer_data, prompt>>

appVars == <<df, selected, num_customers, pc, mode, idx, results, calls, ai_result,
             errors, exception, display, metrics>>

stripVars == <<response_text, inner, stripped>>

promptVars == <<customer_data, prompt>>

(***************************************************************************)
(* Bounds of the model.                                                    *)
(***************************************************************************)
MaxDataset == 4

Min(a, b) == IF a <= b THEN a ELSE b

Max(a, b) == IF a >= b THEN a ELSE b

(***************************************************************************)
(* The record source.                                                      *)
(***************************************************************************)
\* Sample rows of customers_data.csv: name, total_revenue,
\* days_since_last_activity, open_tickets (the columns the dashboard reads).
Customers ==
    << [name |-> "Acme Corp", total_revenue |-> 1000, days_since_last_activity |-> 5,  open_tickets |-> 0],
       [name |-> "Globex",    total_revenue |-> 2000, days_since_last_activity |-> 40, open_tickets |-> 3],
       [name |-> "Initech",   total_revenue |-> 4000, days_since_last_activity |-> 12, open_tickets |-> 1],
       [name |-> "Umbrella",  total_revenue |-> 8000, days_since_last_activity |-> 90, open_tickets |-> 7],
       [name |-> "Hooli",     total_revenue |-> 500,  days_since_last_activity |-> 2,  open_tickets |-> 0],
       [name |-> "Acme Corp", total_revenue |-> 250,  days_since_last_activity |-> 60, open_tickets |-> 2] >>

\* pd.read_csv: the datasets the model loads are the non-empty prefixes of the
\* sample (with an empty file line 93 raises before any widget is built).
Datasets == { SubSeq(Customers, 1, d) : d \in 1..Min(MaxDataset, Len(Customers)) }

NoException == [type |-> "none", line |-> 0]

\* df.iloc[i] (0-based): the row, or IndexError when i is out of range.
InRange(d, i) == i < Len(d)

\* df[df['name'] == n].iloc[0]: the 0-based position of the first row named n.
LookupByName(d, n) == CHOOSE i \in 0..(Len(d) - 1) :
                          /\ d[i + 1].name = n
                          /\ \A j \in 0..(Len(d) - 1) : d[j + 1].name = n => i <= j

(***************************************************************************)
(* The batch-size slider, lines 180-186.  st.slider adjusts its bounds so  *)
(* that min <= value <= max: a min_value above max_value is lowered to it. *)
(***************************************************************************)
SliderMinValue == 3

SliderDefault == 5

\* An off-by-one in the slider's upper bound.
SliderMaxValueOffByOne(d) == Len(d) + 1

\* max_value=len(df), line 183.
SliderMaxValue(d) == Len(d)

SliderValue(d) == Min(SliderDefault, Len(d))

SliderRange(d) ==
    LET lo == Min(Min(SliderMinValue, SliderMaxValue(d)), SliderValue(d))
        hi == Max(SliderMaxValue(d), SliderValue(d))
    IN  lo..hi

(***************************************************************************)
(* The remote model's replies.  The endpoint is an opaque oracle: a call   *)
(* may raise (network or API failure) or return any text.  A reply is      *)
(* described by what its text decodes to.                                  *)
(***************************************************************************)
ExpectedKeys == {"health_score", "churn_risk", "analysis", "recommendations"}

MkReply(kind, keys, score, risk, recs) ==
    [kind |-> kind, keys |-> keys, health_score |-> score, churn_risk |-> risk,
     analysis |-> "Stable.", recommendations |-> recs]

Replies ==
    { MkReply("object", ExpectedKeys, s, r, <<"A", "B", "C">>) : s \in {20, 80}, r \in {"low", "high"} }
    \cup
    { MkReply("object", ExpectedKeys, 50, "critical", <<"C", "A">>),       \* out-of-contract values
      MkReply("object", {"health_score", "churn_risk"}, 40, "high", <<>>), \* two keys missing
      MkReply("object", {"churn_risk", "analysis", "recommendations"}, 0, "low", <<"A", "B", "C">>),
      MkReply("object", {}, 0, "low", <<>>),                                \* the reply {}
      MkReply("list", {}, 0, "low", <<>>),                                  \* a JSON array
      MkReply("nonjson", {}, 0, "low", <<>>),                               \* prose, not JSON
      MkReply("raise", {}, 0, "low", <<>>) }                               \* messages.create raises

(***************************************************************************)
(* analyze_customer_with_ai, lines 53-68.                                  *)
(***************************************************************************)
None == [tag |-> "None", keys |-> {}, health_score |-> 0, churn_risk |-> "low",
         analysis |-> "", recommendations |-> <<>>]

\* json.loads of the stripped reply text (line 62): the decoded value; any
\* valid JSON value is returned as it is, whatever its shape.
JsonLoads(reply) ==
    [tag |-> IF reply.kind = "object" THEN "dict" ELSE "list",
     keys |-> reply.keys, health_score |-> reply.health_score,
     churn_risk |-> reply.churn_risk, analysis |-> reply.analysis,
     recommendations |-> reply.recommendations]

\* Lines 53-68: the except clause catches what messages.create and
\* json.loads raise, and nothing else is checked.
AnalyzeRaises(reply) == reply.kind \in {"raise", "nonjson"}

AnalyzeCustomerWithAi(reply) == IF AnalyzeRaises(reply) THEN None ELSE JsonLoads(reply)

\* `if ai_result:` (lines 130, 200): Python's truth value.
Truthy(v) == \/ v.tag = "list"
             \/ v.tag = "dict" /\ v.keys # {}

\* ai_result[key]: the exception the subscript raises, "none" when it succeeds.
SubscriptError(v, key) ==
    IF v.tag = "list" THEN "TypeError"
    ELSE IF key \notin v.keys THEN "KeyError" ELSE "none"

\* The first of the subscripts, a sequence of <<key, line>>, that raises.
RECURSIVE FirstFault(_, _)
FirstFault(v, accesses) ==
    IF accesses = <<>> THEN NoException
    ELSE IF SubscriptError(v, Head(accesses)[1]) # "none"
         THEN [type |-> SubscriptError(v, Head(accesses)[1]), line |-> Head(accesses)[2]]
         ELSE FirstFault(v, Tail(accesses))

(***************************************************************************)
(* Single-record analysis, lines 125-175.                                  *)
(***************************************************************************)
Widget(w, num, text) == [w |-> w, num |-> num, text |-> text]

\* risk_color.get(ai_result['churn_risk'], ...), lines 158-163.
RiskLabel(risk) ==
    IF risk = "low" THEN "BAJO"
    ELSE IF risk = "medium" THEN "MEDIO"
    ELSE IF risk = "high" THEN "ALTO" ELSE "DESCONOCIDO"

RecommendationWidgets(recs) ==
    [i \in 1..Len(recs) |-> Widget("recommendation", i, recs[i])]

RenderAccesses == << <<"health_score", 138>>, <<"churn_risk", 163>>,
                     <<"analysis", 168>>, <<"recommendations", 171>> >>

\* Lines 131-175 on a truthy ai_result: the widgets in rendering order.
FullDisplay(v) ==
    << Widget("gauge", v.health_score, ""), Widget("badge", 0, RiskLabel(v.churn_risk)),
       Widget("analysis", 0, v.analysis) >>
    \o RecommendationWidgets(v.recommendations)
    \o << Widget("json", 0, "") >>

\* The widgets rendered before the subscript of the given line raised.
PartialDisplay(v, line) ==
    IF line = 138 THEN <<>>
    ELSE IF line = 163 THEN SubSeq(FullDisplay(v), 1, 1)
    ELSE IF line = 168 THEN SubSeq(FullDisplay(v), 1, 2)
    ELSE SubSeq(FullDisplay(v), 1, 3)

RenderFault(v) == FirstFault(v, RenderAccesses)

Render(v) ==
    IF ~Truthy(v) THEN <<>>
    ELSE IF RenderFault(v) = NoException THEN FullDisplay(v)
    ELSE PartialDisplay(v, RenderFault(v).line)

(***************************************************************************)
(* The batch loop and its aggregation, lines 188-233.                      *)
(***************************************************************************)
RowAccesses == << <<"health_score", 203>>, <<"churn_risk", 204>> >>

RowFault(v) == FirstFault(v, RowAccesses)

\* The row appended at lines 201-208.
Row(customer, v) ==
    [Cliente |-> customer.name, HealthScore |-> v.health_score, Riesgo |-> v.churn_risk,
     Revenue |-> customer.total_revenue, Dias |-> customer.days_since_last_activity,
     Tickets |-> customer.open_tickets]

\* pd.DataFrame(results), line 214: the columns of the table.  A frame built
\* from an empty list has no columns.
Columns(rows) ==
    IF rows = <<>> THEN {}
    ELSE {"Cliente", "Health Score", "Riesgo", "Revenue", "Dias sin actividad", "Tickets abiertos"}

\* Series.sum(): the sum of a column's values.
RECURSIVE SeqSum(_)
SeqSum(values) == IF values = <<>> THEN 0 ELSE Head(values) + SeqSum(Tail(values))

IsHigh(row) == row.Riesgo = "high"

\* results_df['Health Score']
ScoreColumn(rows) == [i \in 1..Len(rows) |-> rows[i].HealthScore]

\* results_df['Revenue']
RevenueColumn(rows) == [i \in 1..Len(rows) |-> rows[i].Revenue]

\* results_df[results_df['Riesgo'] == 'high']
HighRows(rows) == SelectSeq(rows, IsHigh)

\* Lines 219-233 on a table with its columns.  A quotient is kept as the
\* pair <<numerator, denominator>>.
Summary(rows) ==
    [avg_health      |-> <<SeqSum(ScoreColumn(rows)), Len(rows)>>,
     high_risk       |-> Len(HighRows(rows)),
     high_risk_pct   |-> <<Len(HighRows(rows)) * 100, Len(rows)>>,
     total_revenue   |-> SeqSum(RevenueColumn(rows)),
     at_risk_revenue |-> SeqSum(RevenueColumn(HighRows(rows)))]

\* The exception lines 219-233 raise on the table, NoException when none.
AggregateFault(rows) ==
    IF "Health Score" \notin Columns(rows) THEN [type |-> "KeyError", line |-> 220]
    ELSE IF "Riesgo" \notin Columns(rows) THEN [type |-> "KeyError", line |-> 224]
    ELSE IF Len(rows) = 0 THEN [type |-> "ZeroDivisionError", line |-> 225]
    ELSE IF "Revenue" \notin Columns(rows) THEN [type |-> "KeyError", line |-> 228]
    ELSE NoException

(***************************************************************************)
(* The dashboard: state after the script's first run, and its handlers.    *)
(***************************************************************************)
StripIdle == /\ response_text = <<>>
             /\ inner = <<>>
             /\ stripped = <<>>

PromptIdle == /\ customer_data = <<>>
              /\ prompt = <<>>

Init ==
    /\ df \in Datasets
    /\ selected = df[1].name                  \* index=0, line 90
    /\ num_customers = SliderValue(df)        \* value=min(5, len(df)), line 184
    /\ pc = "idle"
    /\ mode = "none"
    /\ idx = 0
    /\ results = <<>>
    /\ calls = <<>>
    /\ ai_result = None
    /\ errors = 0
    /\ exception = NoException
    /\ display = <<>>
    /\ metrics = <<>>
    /\ StripIdle
    /\ PromptIdle

\* The selectbox, lines 86-93.
SelectCustomer(n) ==
    /\ pc = "idle"
    /\ \E i \in 1..Len(df) : df[i].name = n
    /\ selected' = n
    /\ UNCHANGED <<df, num_customers, pc, mode, idx, results, calls, ai_result,
                   errors, exception, display, metrics>>
    /\ UNCHANGED <<stripVars, promptVars>>

\* The slider, lines 180-186.
MoveSlider(n) ==
    /\ pc = "idle"
    /\ n \in SliderRange(df)
    /\ num_customers' = n
    /\ UNCHANGED <<df, selected, pc, mode, idx, results, calls, ai_result,
                   errors, exception, display, metrics>>
    /\ UNCHANGED <<stripVars, promptVars>>

\* The "Analizar con Claude AI" button, lines 125-175: one remote request,
\* then the rendering of its result.
ClickAnalyze(reply) ==
    LET v == AnalyzeCustomerWithAi(reply)
        fault == IF Truthy(v) THEN RenderFault(v) ELSE NoException
    IN  /\ pc = "idle"
        /\ mode' = "single"
        /\ calls' = << [record |-> LookupByName(df, selected), reply |-> reply] >>
        /\ ai_result' = v
        /\ errors' = IF AnalyzeRaises(reply) THEN 1 ELSE 0
        /\ display' = Render(v)
        /\ exception' = fault
        /\ pc' = IF fault = NoException THEN "done" ELSE "crashed"
        /\ UNCHANGED <<df, selected, num_customers, idx, results, metrics>>
        /\ UNCHANGED <<stripVars, promptVars>>

\* The "Analizar clientes seleccionados" button, lines 188-192.
ClickBatch ==
    /\ pc = "idle"
    /\ pc' = "batch"
    /\ mode' = "batch"
    /\ idx' = 0
    /\ results' = <<>>
    /\ calls' = <<>>
    /\ errors' = 0
    /\ UNCHANGED <<df, selected, num_customers, ai_result, exception, display, metrics>>
    /\ UNCHANGED <<stripVars, promptVars>>

\* One iteration of the loop, lines 194-210.
BatchStep(reply) ==
    LET v == AnalyzeCustomerWithAi(reply)
        fault == IF ~InRange(df, idx) THEN [type |-> "IndexError", line |-> 195]
                 ELSE IF Truthy(v) THEN RowFault(v) ELSE NoException
    IN  /\ pc = "batch"
        /\ idx < num_customers
        /\ IF ~InRange(df, idx)
           THEN UNCHANGED <<calls, ai_result, errors, results, idx>>
           ELSE /\ calls' = Append(calls, [record |-> idx, reply |-> reply])
                /\ ai_result' = v
                /\ errors' = IF AnalyzeRaises(reply) THEN errors + 1 ELSE errors
                /\ results' = IF Truthy(v) /\ fault = NoException
                              THEN Append(results, Row(df[idx + 1], v))
                              ELSE results
                /\ idx' = IF fault = NoException THEN idx + 1 ELSE idx
        /\ exception' = fault
        /\ pc' = IF fault = NoException THEN "batch" ELSE "crashed"
        /\ UNCHANGED <<df, selected, num_customers, mode, display, metrics>>
        /\ UNCHANGED <<stripVars, promptVars>>

\* After the loop, lines 212-233: the table and its summary statistics.
BatchAggregate ==
    LET fault == AggregateFault(results)
    IN  /\ pc = "batch"
        /\ idx = num_customers
        /\ exception' = fault
        /\ metrics' = IF fault = NoException THEN <<Summary(results)>> ELSE <<>>
        /\ pc' = IF fault = NoException THEN "done" ELSE "crashed"
        /\ UNCHANGED <<df, selected, num_customers, mode, idx, results, calls,
                       ai_result, errors, display>>
        /\ UNCHANGED <<stripVars, promptVars>>

\* The next interaction reruns the script: the handler's output is gone,
\* the widgets keep their values.
Rerun ==
    /\ pc \in {"done", "crashed"}
    /\ pc' = "idle"
    /\ mode' = "none"
    /\ idx' = 0
    /\ results' = <<>>
    /\ calls' = <<>>
    /\ ai_result' = None
    /\ errors' = 0
    /\ exception' = NoException
    /\ display' = <<>>
    /\ metrics' = <<>>
    /\ UNCHANGED <<df, selected, num_customers>>
    /\ UNCHANGED <<stripVars, promptVars>>

Next ==
    \/ \E n \in {Customers[i].name : i \in 1..Len(Customers)} : SelectCustomer(n)
    \/ \E n \in 1..(MaxDataset + 1) : MoveSlider(n)
    \/ \E reply \in Replies : ClickAnalyze(reply)
    \/ ClickBatch
    \/ \E reply \in Replies : BatchStep(reply)
    \/ BatchAggregate
    \/ Rerun

Spec == Init /\ [][Next]_vars

(***************************************************************************)
(* Properties of the dashboard, checked under Spec.                        *)
(***************************************************************************)
\* An analysis succeeded, in the sense of the specification: the remote call
\* returned and the reply decodes to a JSON object with the four expected keys.
Succeeded(reply) == reply.kind = "object" /\ ExpectedKeys \subseteq reply.keys

\* The rows of the records whose analysis succeeded, in the order of the calls.
RECURSIVE RowsOfSuccesses(_)
RowsOfSuccesses(cs) ==
    IF cs = <<>> THEN <<>>
    ELSE (IF Succeeded(Head(cs).reply)
          THEN << Row(df[Head(cs).record + 1], JsonLoads(Head(cs).reply)) >>
          ELSE <<>>)
         \o RowsOfSuccesses(Tail(cs))

BatchEnded == mode = "batch" /\ pc \in {"done", "crashed"}

\* C1: when a batch over the first N records has ended, every one of the N
\* records was analysed (a failed record does not stop the later ones) and the
\* result table holds exactly the rows of the records whose analysis
\* succeeded, in dataset order.
C1_BatchRowsAreTheSuccesses ==
    BatchEnded => /\ Len(calls) = num_customers
                  /\ results = RowsOfSuccesses(calls)

\* C2: analyze returns a result exactly when the remote call succeeded and the
\* reply is a JSON object with all four keys, yields None otherwise, and no
\* exception from using its result reaches the rendering or the batch loop.
C2_ResultOnlyForCompleteReply ==
    calls # <<>> =>
        /\ (ai_result # None) <=> Succeeded(calls[Len(calls)].reply)
        /\ exception.line \notin {138, 163, 168, 171, 203, 204}

\* C3: when every record of a batch failed (its remote call raised or its
\* reply was not JSON), so that the result table is empty, the summary
\* statistics are computed without raising any exception.
C3_EmptyBatchSummaryCompletes ==
    ( /\ BatchEnded
      /\ idx = num_customers
      /\ \A i \in 1..Len(calls) : calls[i].reply.kind \in {"raise", "nonjson"} )
    => exception = NoException /\ metrics # <<>>

\* C4: the selected batch size never exceeds the dataset size, so every
\* positional access of the batch loop is within the dataset.
C4_BatchSizeWithinDataset ==
    /\ num_customers >= 1
    /\ num_customers <= Len(df)
    /\ pc = "batch" /\ idx < num_customers => InRange(df, idx)
    /\ \A i \in 1..Len(calls) : InRange(df, calls[i].record)
    /\ exception.type # "IndexError"

\* C4's case: a dataset larger than the slider's minimum, the slider moved to
\* the whole dataset, and the loop has accessed its last row.
C4_Witness ==
    /\ mode = "batch"
    /\ Len(df) > SliderMinValue
    /\ num_customers = Len(df)
    /\ calls # <<>>
    /\ calls[Len(calls)].record = Len(df) - 1

\* C5: after a batch, the summary statistics are those of the successful
\* records and of no other: mean score, high-risk count and percentage, total
\* revenue and revenue at risk.
C5_SummaryOverSuccessfulRecords ==
    (mode = "batch" /\ pc = "done") => metrics = << Summary(RowsOfSuccesses(calls)) >>

\* C7: single-record analysis shows the gauge, badge, analysis and
\* recommendations (with the reply's values, in the reply's order) if analyze
\* returned a result, and shows nothing but a reported error if it did not.
C7_SingleDisplayIffResult ==
    (mode = "single" /\ pc \in {"done", "crashed"}) =>
        IF ai_result # None
        THEN display = FullDisplay(ai_result) /\ exception = NoException
        ELSE display = <<>> /\ errors = 1 /\ exception = NoException

\* C9: a batch issues one remote request per record, in index order 0..N-1,
\* and has issued all N of them when it ends, whichever records fail.
C9_BatchIssuesEveryRequestInOrder ==
    mode = "batch" =>
        /\ \A i \in 1..Len(calls) : calls[i].record = i - 1
        /\ BatchEnded => Len(calls) = num_customers

(***************************************************************************)
(* Code-fence stripping, line 61:                                          *)
(*   response_text.replace('```json', '').replace('```', '').strip()       *)
(* on texts as sequences of code points.                                   *)
(***************************************************************************)
MaxPieces == 4

\* '```json' and '```' (96 is the backtick; 106 115 111 110 spell json).
FenceJson == <<96, 96, 96, 106, 115, 111, 110>>

Fence == <<96, 96, 96>>

\* The characters str.strip() removes, among the code points below 128.
Whitespace == {9, 10, 11, 12, 13, 28, 29, 30, 31, 32}

\* str.replace(old, ''): every occurrence of old, found left to right without
\* overlap, is removed.
RECURSIVE Remove(_, _)
Remove(text, old) ==
    IF Len(text) < Len(old) THEN text
    ELSE IF SubSeq(text, 1, Len(old)) = old
         THEN Remove(SubSeq(text, Len(old) + 1, Len(text)), old)
         ELSE <<Head(text)>> \o Remove(Tail(text), old)

RECURSIVE LStrip(_)
LStrip(text) ==
    IF text # <<>> /\ Head(text) \in Whitespace THEN LStrip(Tail(text)) ELSE text

RECURSIVE RStrip(_)
RStrip(text) ==
    IF text # <<>> /\ text[Len(text)] \in Whitespace
    THEN RStrip(SubSeq(text, 1, Len(text) - 1)) ELSE text

\* str.strip()
Strip(text) == RStrip(LStrip(text))

\* A slip in the order of the chained calls: the bare fence removed first.
StripFencesFenceFirst(text) == Strip(Remove(Remove(text, Fence), FenceJson))

\* A slip in the order of the chained calls: trimmed before the fences go.
StripFencesTrimFirst(text) == Remove(Remove(Strip(text), FenceJson), Fence)

\* Line 61.
StripFences(text) == Strip(Remove(Remove(text, FenceJson), Fence))

\* The reply texts of the model: up to MaxPieces pieces, one after the other.
\* The pieces: ` `` ``` json space newline {}
Pieces == { <<96>>, <<96, 96>>, Fence, <<106, 115, 111, 110>>, <<32>>, <<10>>, <<123, 125>> }

RECURSIVE TextsOf(_)
TextsOf(n) ==
    IF n = 0 THEN { <<>> }
    ELSE LET shorter == TextsOf(n - 1)
         IN  shorter \cup { t \o p : t \in shorter, p \in Pieces }

Texts == TextsOf(MaxPieces)

AppIdle ==
    /\ df = SubSeq(Customers, 1, 1)
    /\ selected = df[1].name
    /\ num_customers = SliderValue(df)
    /\ pc = "idle"
    /\ mode = "none"
    /\ idx = 0
    /\ results = <<>>
    /\ calls = <<>>
    /\ ai_result = None
    /\ errors = 0
    /\ exception = NoException
    /\ display = <<>>
    /\ metrics = <<>>

\* A reply is any text, or a content wrapped as ```json + content + ```.
InitStrip ==
    /\ AppIdle
    /\ PromptIdle
    /\ \E content \in Texts :
          \/ response_text = content /\ inner = <<>>
          \/ response_text = FenceJson \o content \o Fence /\ inner = <<content>>
    /\ stripped = <<>>

\* Line 61 applied to the reply.
StripReply ==
    /\ stripped = <<>>
    /\ stripped' = << StripFences(response_text) >>
    /\ UNCHANGED <<response_text, inner>>
    /\ UNCHANGED <<appVars, promptVars>>

\* Line 61 applied to its own result.
StripAgain ==
    /\ Len(stripped) = 1
    /\ stripped' = Append(stripped, StripFences(stripped[1]))
    /\ UNCHANGED <<response_text, inner>>
    /\ UNCHANGED <<appVars, promptVars>>

NextStrip == StripReply \/ StripAgain

SpecStrip == InitStrip /\ [][NextStrip]_vars

\* old occurs in text.
Contains(text, old) ==
    \E i \in 1..(Len(text) - Len(old) + 1) : SubSeq(text, i, i + Len(old) - 1) = old

Surrounded(text) ==
    text # <<>> /\ (text[1] \in Whitespace \/ text[Len(text)] \in Whitespace)

C10_StripIdempotent ==
    /\ stripped # <<>> => ~Contains(stripped[1], Fence) /\ ~Surrounded(stripped[1])
    /\ Len(stripped) = 2 => stripped[2] = stripped[1]

\* C10's case: a reply stripped twice whose only ``` is the one of ```json,
\* where removing ```json brings the backticks around it together into a
\* new ```, which the second replace then removes.
C10_Witness ==
    /\ Len(stripped) = 2
    /\ Contains(response_text, FenceJson)
    /\ Len(response_text) - Len(Remove(response_text, Fence)) = 3
    /\ Contains(Remove(response_text, FenceJson), Fence)
    /\ stripped[1] # response_text

(***************************************************************************)
(* Prompt rendering, lines 21-51: the f-string, as code points.  Integer   *)
(* fields are formatted by str(), total_revenue by the format ,.2f.  In    *)
(* this part total_revenue is an amount in cents.                          *)
(***************************************************************************)
\* str(n) of a natural number.
RECURSIVE FormatInt(_)
FormatInt(n) ==
    IF n < 10 THEN << 48 + n >> ELSE FormatInt(n \div 10) \o << 48 + (n % 10) >>

\* The ',' option of the format: a comma before every group of three digits.
RECURSIVE GroupThousands(_)
GroupThousands(digits) ==
    IF Len(digits) <= 3 THEN digits
    ELSE GroupThousands(SubSeq(digits, 1, Len(digits) - 3)) \o << 44 >>
         \o SubSeq(digits, Len(digits) - 2, Len(digits))

\* f"{total_revenue:,.2f}" (line 29) of an amount of that many cents.
FormatRevenue(cents) ==
    GroupThousands(FormatInt(cents \div 100))
    \o << 46, 48 + ((cents % 100) \div 10), 48 + (cents % 10) >>

\* The template's text before the first field (lines 21-51; non-ASCII letters shown as ?):
\*   |
\*   |    Analiza este cliente B2B y proporciona un an?lisis detallado como Customer Success Manager experto.
\*   |    
\*   |    Datos del cliente:
\*   |    - Nombre: 
Seg0 ==
    << 10, 32, 32, 32, 32, 65, 110, 97, 108, 105, 122, 97, 32, 101, 115, 116, 101, 32, 99, 108,
       105, 101, 110, 116, 101, 32, 66, 50, 66, 32, 121, 32, 112, 114, 111, 112, 111, 114, 99,
       105, 111, 110, 97, 32, 117, 110, 32, 97, 110, 225, 108, 105, 115, 105, 115, 32, 100, 101,
       116, 97, 108, 108, 97, 100, 111, 32, 99, 111, 109, 111, 32, 67, 117, 115, 116, 111, 109,
       101, 114, 32, 83, 117, 99, 99, 101, 115, 115, 32, 77, 97, 110, 97, 103, 101, 114, 32, 101,
       120, 112, 101, 114, 116, 111, 46, 10, 32, 32, 32, 32, 10, 32, 32, 32, 32, 68, 97, 116,
       111, 115, 32, 100, 101, 108, 32, 99, 108, 105, 101, 110, 116, 101, 58, 10, 32, 32, 32, 32,
       45, 32, 78, 111, 109, 98, 114, 101, 58, 32 >>

\* The template's text after {name} (lines 21-51; non-ASCII letters shown as ?):
\*   |
\*   |    - D?as desde ?ltima actividad: 
Seg1 ==
    << 10, 32, 32, 32, 32, 45, 32, 68, 237, 97, 115, 32, 100, 101, 115, 100, 101, 32, 250, 108,
       116, 105, 109, 97, 32, 97, 99, 116, 105, 118, 105, 100, 97, 100, 58, 32 >>

\* The template's text after {days_since_last_activity} (lines 21-51; non-ASCII letters shown as ?):
\*   |
\*   |    - Tickets abiertos actualmente: 
Seg2 ==
    << 10, 32, 32, 32, 32, 45, 32, 84, 105, 99, 107, 101, 116, 115, 32, 97, 98, 105, 101, 114,
       116, 111, 115, 32, 97, 99, 116, 117, 97, 108, 109, 101, 110, 116, 101, 58, 32 >>

\* The template's text after {open_tickets} (lines 21-51; non-ASCII letters shown as ?):
\*   |
\*   |    - Total tickets hist?ricos: 
Seg3 ==
    << 10, 32, 32, 32, 32, 45, 32, 84, 111, 116, 97, 108, 32, 116, 105, 99, 107, 101, 116, 115,
       32, 104, 105, 115, 116, 243, 114, 105, 99, 111, 115, 58, 32 >>

\* The template's text after {total_tickets} (lines 21-51; non-ASCII letters shown as ?):
\*   |
\*   |    - Revenue total: $
Seg4 ==
    << 10, 32, 32, 32, 32, 45, 32, 82, 101, 118, 101, 110, 117, 101, 32, 116, 111, 116, 97, 108,
       58, 32, 36 >>

\* The template's text after {total_revenue} (lines 21-51; non-ASCII letters shown as ?):
\*   |
\*   |    - Oportunidades ganadas: 
Seg5 ==
    << 10, 32, 32, 32, 32, 45, 32, 79, 112, 111, 114, 116, 117, 110, 105, 100, 97, 100, 101, 115,
       32, 103, 97, 110, 97, 100, 97, 115, 58, 32 >>

\* The template's text after {opportunities_won} (lines 21-51; non-ASCII letters shown as ?):
\*   |
\*   |    - Oportunidades perdidas: 
Seg6 ==
    << 10, 32, 32, 32, 32, 45, 32, 79, 112, 111, 114, 116, 117, 110, 105, 100, 97, 100, 101, 115,
       32, 112, 101, 114, 100, 105, 100, 97, 115, 58, 32 >>

\* The template's text after {opportunities_lost} (lines 21-51; non-ASCII letters shown as ?):
\*   |
\*   |    - Engagement de email: 
Seg7 ==
    << 10, 32, 32, 32, 32, 45, 32, 69, 110, 103, 97, 103, 101, 109, 101, 110, 116, 32, 100, 101,
       32, 101, 109, 97, 105, 108, 58, 32 >>

\* The template's text after {email_engagement} (lines 21-51; non-ASCII letters shown as ?):
\*   |
\*   |    
\*   |    Proporciona:
\*   |    1. Health Score (0-100) - siendo 100 salud perfecta
\*   |    2. Churn Risk (low/medium/high)
\*   |    3. Exactamente 3 acciones recomendadas espec?ficas y accionables
\*   |    4. Un breve an?lisis (2-3 oraciones) del estado actual del cliente
\*   |    
\*   |    IMPORTANTE: Responde SOLO con JSON v?lido en este formato exacto:
\*   |    {
\*   |        'health_score': 75,
\*   |        'churn_risk': 'medium',
\*   |        'analysis': 'Breve an?lisis aqu? del estado del cliente',
\*   |        'recommendations': [
\*   |            'Primera acci?n espec?fica y accionable',
\*   |            'Segunda acci?n espec?fica y accionable',
\*   |            'Tercera acci?n espec?fica y accionable'
\*   |        ]
\*   |    }
\*   |    
Seg8 ==
    << 10, 32, 32, 32, 32, 10, 32, 32, 32, 32, 80, 114, 111, 112, 111, 114, 99, 105, 111, 110,
       97, 58, 10, 32, 32, 32, 32, 49, 46, 32, 72, 101, 97, 108, 116, 104, 32, 83, 99, 111, 114,
       101, 32, 40, 48, 45, 49, 48, 48, 41, 32, 45, 32, 115, 105, 101, 110, 100, 111, 32, 49, 48,
       48, 32, 115, 97, 108, 117, 100, 32, 112, 101, 114, 102, 101, 99, 116, 97, 10, 32, 32, 32,
       32, 50, 46, 32, 67, 104, 117, 114, 110, 32, 82, 105, 115, 107, 32, 40, 108, 111, 119, 47,
       109, 101, 100, 105, 117, 109, 47, 104, 105, 103, 104, 41, 10, 32, 32, 32, 32, 51, 46, 32,
       69, 120, 97, 99, 116, 97, 109, 101, 110, 116, 101, 32, 51, 32, 97, 99, 99, 105, 111, 110,
       101, 115, 32, 114, 101, 99, 111, 109, 101, 110, 100, 97, 100, 97, 115, 32, 101, 115, 112,
       101, 99, 237, 102, 105, 99, 97, 115, 32, 121, 32, 97, 99, 99, 105, 111, 110, 97, 98, 108,
       101, 115, 10, 32, 32, 32, 32, 52, 46, 32, 85, 110, 32, 98, 114, 101, 118, 101, 32, 97,
       110, 225, 108, 105, 115, 105, 115, 32, 40, 50, 45, 51, 32, 111, 114, 97, 99, 105, 111,
       110, 101, 115, 41, 32, 100, 101, 108, 32, 101, 115, 116, 97, 100, 111, 32, 97, 99, 116,
       117, 97, 108, 32, 100, 101, 108, 32, 99, 108, 105, 101, 110, 116, 101, 10, 32, 32, 32, 32,
       10, 32, 32, 32, 32, 73, 77, 80, 79, 82, 84, 65, 78, 84, 69, 58, 32, 82, 101, 115, 112,
       111, 110, 100, 101, 32, 83, 79, 76, 79, 32, 99, 111, 110, 32, 74, 83, 79, 78, 32, 118,
       225, 108, 105, 100, 111, 32, 101, 110, 32, 101, 115, 116, 101, 32, 102, 111, 114, 109, 97,
       116, 111, 32, 101, 120, 97, 99, 116, 111, 58, 10, 32, 32, 32, 32, 123, 10, 32, 32, 32, 32,
       32, 32, 32, 32, 34, 104, 101, 97, 108, 116, 104, 95, 115, 99, 111, 114, 101, 34, 58, 32,
       55, 53, 44, 10, 32, 32, 32, 32, 32, 32, 32, 32, 34, 99, 104, 117, 114, 110, 95, 114, 105,
       115, 107, 34, 58, 32, 34, 109, 101, 100, 105, 117, 109, 34, 44, 10, 32, 32, 32, 32, 32,
       32, 32, 32, 34, 97, 110, 97, 108, 121, 115, 105, 115, 34, 58, 32, 34, 66, 114, 101, 118,
       101, 32, 97, 110, 225, 108, 105, 115, 105, 115, 32, 97, 113, 117, 237, 32, 100, 101, 108,
       32, 101, 115, 116, 97, 100, 111, 32, 100, 101, 108, 32, 99, 108, 105, 101, 110, 116, 101,
       34, 44, 10, 32, 32, 32, 32, 32, 32, 32, 32, 34, 114, 101, 99, 111, 109, 109, 101, 110,
       100, 97, 116, 105, 111, 110, 115, 34, 58, 32, 91, 10, 32, 32, 32, 32, 32, 32, 32, 32, 32,
       32, 32, 32, 34, 80, 114, 105, 109, 101, 114, 97, 32, 97, 99, 99, 105, 243, 110, 32, 101,
       115, 112, 101, 99, 237, 102, 105, 99, 97, 32, 121, 32, 97, 99, 99, 105, 111, 110, 97, 98,
       108, 101, 34, 44, 10, 32, 32, 32, 32, 32, 32, 32, 32, 32, 32, 32, 32, 34, 83, 101, 103,
       117, 110, 100, 97, 32, 97, 99, 99, 105, 243, 110, 32, 101, 115, 112, 101, 99, 237, 102,
       105, 99, 97, 32, 121, 32, 97, 99, 99, 105, 111, 110, 97, 98, 108, 101, 34, 44, 10, 32, 32,
       32, 32, 32, 32, 32, 32, 32, 32, 32, 32, 34, 84, 101, 114, 99, 101, 114, 97, 32, 97, 99,
       99, 105, 243, 110, 32, 101, 115, 112, 101, 99, 237, 102, 105, 99, 97, 32, 121, 32, 97, 99,
       99, 105, 111, 110, 97, 98, 108, 101, 34, 10, 32, 32, 32, 32, 32, 32, 32, 32, 93, 10, 32,
       32, 32, 32, 125, 10, 32, 32, 32, 32 >>

\* A slip in the template: the two ticket counts in each other's place.
RenderPromptTicketsSwapped(record) ==
    Seg0 \o record.name
    \o Seg1 \o FormatInt(record.days_since_last_activity)
    \o Seg2 \o FormatInt(record.total_tickets)
    \o Seg3 \o FormatInt(record.open_tickets)
    \o Seg4 \o FormatRevenue(record.total_revenue)
    \o Seg5 \o FormatInt(record.opportunities_won)
    \o Seg6 \o FormatInt(record.opportunities_lost)
    \o Seg7 \o record.email_engagement
    \o Seg8

\* Lines 21-51.
RenderPrompt(record) ==
    Seg0 \o record.name
    \o Seg1 \o FormatInt(record.days_since_last_activity)
    \o Seg2 \o FormatInt(record.open_tickets)
    \o Seg3 \o FormatInt(record.total_tickets)
    \o Seg4 \o FormatRevenue(record.total_revenue)
    \o Seg5 \o FormatInt(record.opportunities_won)
    \o Seg6 \o FormatInt(record.opportunities_lost)
    \o Seg7 \o record.email_engagement
    \o Seg8

\* The records rendered by the model.  Names: Acme Corp, 3M.  Engagement:
\* high, very_low.  Revenue: 999.50 and 1,234,567.89.
SampleRecords ==
    [ name : { <<65, 99, 109, 101, 32, 67, 111, 114, 112>>, <<51, 77>> },
      days_since_last_activity : {0, 45},
      open_tickets : {0, 3, 12},
      total_tickets : {3, 57},
      total_revenue : {99950, 123456789},
      opportunities_won : {1, 10},
      opportunities_lost : {0, 2},
      email_engagement : { <<104, 105, 103, 104>>, <<118, 101, 114, 121, 95, 108, 111, 119>> } ]

InitPrompt ==
    /\ AppIdle
    /\ StripIdle
    /\ customer_data \in SampleRecords
    /\ prompt = <<>>

\* Lines 21-51 on the record.
BuildPrompt ==
    /\ prompt = <<>>
    /\ prompt' = RenderPrompt(customer_data)
    /\ UNCHANGED customer_data
    /\ UNCHANGED <<appVars, stripVars>>

\* The record of the next analysis.
NextRecord(record) ==
    /\ prompt # <<>>
    /\ customer_data' = record
    /\ prompt' = <<>>
    /\ UNCHANGED <<appVars, stripVars>>

NextPrompt == BuildPrompt \/ \E record \in SampleRecords : NextRecord(record)

SpecPrompt == InitPrompt /\ [][NextPrompt]_vars

\* The number of places of text at which old occurs.
Occurrences(text, old) ==
    Cardinality({ i \in 1..(Len(text) - Len(old) + 1) :
                    text[i] = old[1] /\ SubSeq(text, i, i + Len(old) - 1) = old })

\* The eight field values as the prompt shows them, in template order.
FieldTexts(record) ==
    << record.name,
       FormatInt(record.days_since_last_activity),
       FormatInt(record.open_tickets),
       FormatInt(record.total_tickets),
       FormatRevenue(record.total_revenue),
       FormatInt(record.opportunities_won),
       FormatInt(record.opportunities_lost),
       record.email_engagement >>

\* Line 25: '- Nombre: '
LabelName ==
    << 45, 32, 78, 111, 109, 98, 114, 101, 58, 32 >>

\* Line 26: '- D?as desde ?ltima actividad: '
LabelDays ==
    << 45, 32, 68, 237, 97, 115, 32, 100, 101, 115, 100, 101, 32, 250, 108, 116, 105, 109, 97, 32, 97, 99, 116, 105, 118, 105, 100, 97, 100, 58, 32 >>

\* Line 27: '- Tickets abiertos actualmente: '
LabelOpenTickets ==
    << 45, 32, 84, 105, 99, 107, 101, 116, 115, 32, 97, 98, 105, 101, 114, 116, 111, 115, 32, 97, 99, 116, 117, 97, 108, 109, 101, 110, 116, 101, 58, 32 >>

\* Line 28: '- Total tickets hist?ricos: '
LabelTotalTickets ==
    << 45, 32, 84, 111, 116, 97, 108, 32, 116, 105, 99, 107, 101, 116, 115, 32, 104, 105, 115, 116, 243, 114, 105, 99, 111, 115, 58, 32 >>

\* Line 29: '- Revenue total: $'
LabelRevenue ==
    << 45, 32, 82, 101, 118, 101, 110, 117, 101, 32, 116, 111, 116, 97, 108, 58, 32, 36 >>

\* Line 30: '- Oportunidades ganadas: '
LabelWon ==
    << 45, 32, 79, 112, 111, 114, 116, 117, 110, 105, 100, 97, 100, 101, 115, 32, 103, 97, 110, 97, 100, 97, 115, 58, 32 >>

\* Line 31: '- Oportunidades perdidas: '
LabelLost ==
    << 45, 32, 79, 112, 111, 114, 116, 117, 110, 105, 100, 97, 100, 101, 115, 32, 112, 101, 114, 100, 105, 100, 97, 115, 58, 32 >>

\* Line 32: '- Engagement de email: '
LabelEngagement ==
    << 45, 32, 69, 110, 103, 97, 103, 101, 109, 101, 110, 116, 32, 100, 101, 32, 101, 109, 97, 105, 108, 58, 32 >>

FieldLabels == << LabelName, LabelDays, LabelOpenTickets, LabelTotalTickets,
                 LabelRevenue, LabelWon, LabelLost, LabelEngagement >>

IsDigit(c) == c \in 48..57

RECURSIVE DigitsValue(_)
DigitsValue(digits) ==
    IF digits = <<>> THEN 0
    ELSE 10 * DigitsValue(SubSeq(digits, 1, Len(digits) - 1)) + (digits[Len(digits)] - 48)

\* text shows the amount with thousands grouping and two decimals: a point
\* before the last two digits, a comma exactly before every complete group of
\* three digits of the integer part, and the digits of the amount.
GroupedTwoDecimals(text, cents) ==
    /\ Len(text) >= 4
    /\ text[Len(text) - 2] = 46
    /\ IsDigit(text[Len(text) - 1]) /\ IsDigit(text[Len(text)])
    /\ IsDigit(text[1])
    /\ \A i \in 1..(Len(text) - 3) :
          IF (Len(text) - 2 - i) % 4 = 0 THEN text[i] = 44 ELSE IsDigit(text[i])
    /\ DigitsValue(SelectSeq(text, IsDigit)) = cents

\* C8, as stated: each of the eight field values occurs exactly once as a
\* substring of the whole prompt.
C8_EachFieldExactlyOnce ==
    prompt # <<>> =>
        \A k \in 1..8 : Occurrences(prompt, FieldTexts(customer_data)[k]) = 1

\* C8, amended: each of the eight field values occurs in the prompt, directly
\* after its own label and ending its line (the one place where the template
\* interpolates it), the revenue with thousands grouping and two decimals; a
\* value may occur elsewhere in the prompt text as well.
C8_EachFieldAfterItsLabel ==
    prompt # <<>> =>
        /\ \A k \in 1..8 :
              /\ Occurrences(prompt, FieldLabels[k] \o FieldTexts(customer_data)[k] \o <<10>>) = 1
              /\ Occurrences(prompt, FieldTexts(customer_data)[k]) >= 1
        /\ GroupedTwoDecimals(FieldTexts(customer_data)[5], customer_data.total_revenue)

\* C8's case: a rendered prompt of a record with a revenue of two comma groups
\* and ticket counts that differ, one of which also occurs in the fixed text.
C8_Witness ==
    /\ prompt # <<>>
    /\ customer_data.total_revenue >= 100000000
    /\ customer_data.open_tickets # customer_data.total_tickets
    /\ Occurrences(prompt, FormatInt(customer_data.open_tickets)) > 1

====
